---- MODULE Spec2Model ----
(***************************************************************************)
(* Job orchestration of the podcast dubbing backend.                       *)
(*                                                                         *)
(*   backend/app/main.py      the job API (create_job, get_job, list_jobs, *)
(*                            download) and the background worker          *)
(*                            (_run_pipeline_bg)                           *)
(*   backend/app/pipeline.py  the five-stage pipeline (main)               *)
(*                                                                         *)
(* The job store is the file system below JOBS_DIR: one directory per job  *)
(* identity holding status.txt, step.txt, outputs/ and logs/.  create_job  *)
(* is an async handler (it runs on the single event loop and yields only   *)
(* at its await), workers are threads, get_job / download are sync         *)
(* handlers run on pool threads: every access to the shared file system,   *)
(* to os.environ or to the clock is a separate step of the model.          *)
(*                                                                         *)
(* The model-backed stages (transcription, translate_en2vi, tts_speak) and *)
(* the chunking functions (chunk_text, chunk_text_translate) are looked at *)
(* on their own: one run of a stage call by call under every outcome of    *)
(* its collaborators, one call of a chunking function on every text.       *)
(***************************************************************************)
EXTENDS Integers, Sequences, FiniteSets, TLC

\* ---------------------------------------------------------------- bounds
\* Number of POST /jobs requests issued in a run.
MaxReqs == 2
\* The wall clock is read in instants 0..MaxTime ...
MaxTime == 2
\* ... and TicksPerSec instants make one second, the granularity of "%S".
TicksPerSec == 2

\* Number of download requests issued in a run.
MaxDownloads == 1

\* Number of chunks a model-backed stage works through.
MaxChunks == 3

\* Length of the texts given to the chunking functions, and their max_chars.
MaxLen == 5

MaxM == 3

Reqs == 1..MaxReqs
Instants == 0..MaxTime

\* -------------------------------------------------------------- job identity
\* time.strftime("job_%Y%m%d_%H%M%S"): the identity is the wall clock cut to
\* whole seconds.  The fixed-width text orders as the second does, so the
\* identity is represented by the number of the second.
JobIdOf(t) == t \div TicksPerSec

JobIds == {JobIdOf(t) : t \in Instants}

\* -------------------------------------------------------------- input domains
\* file: UploadFile = File(None): no part, a part with an empty filename, a
\* part with a filename.
FileVals == {"none", "unnamed", "named"}
\* youtube_url / spotify_url: str = Form(None): absent (None or ""), a string
\* the matching is_*_url accepts, a string it does not accept.
UrlVals == {"none", "ok", "bad"}
Speakers == {"SF", "NM"}
Devices == {"cpu", "cuda"}

\* Contents of status.txt: no file, empty (opened for writing, not yet
\* written), or a value.
StatusVals == {"absent", "", "running", "done", "error"}
\* Contents of step.txt.
StepVals == {"absent", "init", "init_youtube", "init_spotify",
             "stage1", "stage2", "stage3", "stage4", "stage5", "finished"}

Stages == 1..5

VARIABLES
    now,         \* the wall clock when it was last read, in instants
    forms,       \* the forms the clients of this run submit to POST /jobs
    req,         \* req[r]: the r-th POST /jobs request and its handler
    dirs,        \* job identities whose directory exists under JOBS_DIR
    status,      \* status[j]: content of JOBS_DIR/j/status.txt
    step,        \* step[j]: content of JOBS_DIR/j/step.txt
    files,       \* files[j]: names of the files in JOBS_DIR/j/outputs
    errlog,      \* errlog[j]: JOBS_DIR/j/logs/error.log exists
    envSpeaker,  \* os.environ["TTS_SPEAKER"]
    envDevice,   \* os.environ["TTS_DEVICE"]
    wk,          \* wk[r]: the worker thread started by request r
    poll,        \* the GET /jobs/{id} request in progress, or the last answered
    dl,          \* the last GET /jobs/{id}/download request and its response
    ex,          \* one run of a model-backed stage (transcription, translation,
                 \* synthesis): its device, its calls and their outcomes
    ck           \* one call of a chunking function: its input, its locals, its
                 \* output

vars == <<now, forms, req, dirs, status, step, files, errlog, envSpeaker,
          envDevice, wk, poll, dl, ex, ck>>

\* The state of the job API and of the workers.
jobVars == <<now, forms, req, dirs, status, step, files, errlog, envSpeaker,
             envDevice, wk, poll, dl>>

store == <<dirs, status, step, files, errlog>>

\* ------------------------------------------------------------ output names
WavName(speaker) == IF speaker = "SF" THEN "podcast_vi_SF.wav" ELSE "podcast_vi_NM.wav"

Mp3Name(speaker) == IF speaker = "SF" THEN "podcast_vi_SF.mp3" ELSE "podcast_vi_NM.mp3"

FileNames == {"podcast_en_16k.wav", "podcast_en.txt", "podcast_vi.txt"}
             \cup {WavName(s) : s \in Speakers} \cup {Mp3Name(s) : s \in Speakers}

\* ------------------------------------------------------------------- Init
\* A request: the position of its handler, the form fields it carries, the
\* identity it was given and its response.
NoReq == [pc |-> "new", file |-> "none", yt |-> "none", sp |-> "none",
          speaker |-> "SF", device |-> "cpu", job |-> -1, resp |-> "none"]

\* A worker thread: its position, the arguments it still reads (in_path until
\* stage 1, the urls until the fetch), the values stage 4 read from the
\* environment, and the stages it began and completed so far.
NoWorker == [pc |-> "idle", job |-> -1, in_path |-> "none",
             yt |-> "none", sp |-> "none",
             useSpeaker |-> "none", useDevice |-> "none",
             began |-> <<>>, completed |-> 0]

\* The multipart forms a client can submit.  speaker and device default to
\* "SF" and "cpu" (main.py:128-129).
AllForms == [file : FileVals, yt : UrlVals, sp : UrlVals,
             speaker : Speakers, device : Devices]

\* Clients that leave speaker and device at their defaults.
DefaultForms == {f \in AllForms : f.speaker = "SF" /\ f.device = "cpu"}

\* Clients that upload a file and choose speaker and device.
UploadForms == {f \in AllForms : f.file = "named" /\ f.yt = "none" /\ f.sp = "none"}

NoPoll == [pc |-> "idle", job |-> "none", status |-> "none", step |-> "none",
           files |-> {}, en_text |-> "", vi_text |-> "", resp |-> "none"]

NoDownload == [n |-> 0, job |-> "none", path |-> <<>>, abs |-> FALSE,
               code |-> "none", target |-> <<>>]

\* No stage run and no chunking call is looked into.
NoExec == [pc |-> "idle"]

NoChunking == [pc |-> "idle"]

\* The job API before its first request.
JobsInit(fs) ==
    /\ forms = fs
    /\ poll = NoPoll
    /\ dl = NoDownload
    /\ now = 0
    /\ req = [r \in Reqs |-> NoReq]
    /\ dirs = {}
    /\ status = [j \in JobIds |-> "absent"]
    /\ step = [j \in JobIds |-> "absent"]
    /\ files = [j \in JobIds |-> {}]
    /\ errlog = [j \in JobIds |-> FALSE]
    /\ envSpeaker = "unset"
    /\ envDevice = "unset"
    /\ wk = [r \in Reqs |-> NoWorker]

InitWith(fs) ==
    /\ JobsInit(fs)
    /\ ex = NoExec
    /\ ck = NoChunking

Init == InitWith(DefaultForms)

\* ------------------------------------------------------- create_job (POST)
\* The handler is a coroutine of the single event loop: between its start and
\* its await, and between its resumption and its return, no other coroutine
\* runs.
OnLoop(r) == req[r].pc \in {"status_open", "status_write", "step", "start"}

LoopIdle == \A r \in Reqs : ~OnLoop(r)

\* main.py:132  if not file and not youtube_url and not spotify_url
Rejected(file, yt, sp) == file = "none" /\ yt = "none" /\ sp = "none"

\* A handler that makes the job's directories before it validates.
CreateJobRejectLate(r) ==
    /\ req' = [req EXCEPT ![r] = [NoReq EXCEPT !.pc = "rejected", !.resp = "400"]]
    /\ dirs' = dirs \cup {JobIdOf(now)}
    /\ UNCHANGED now

\* main.py:133  raise HTTPException(status_code=400, ...): nothing was done
\* before it.
CreateJobReject(r) ==
    /\ req' = [req EXCEPT ![r] = [NoReq EXCEPT !.pc = "rejected", !.resp = "400"]]
    /\ UNCHANGED <<now, dirs>>

\* main.py:135-146: the identity is formed from the clock read at instant t
\* (the clock does not go back), the job's directories are made, and an
\* upload with a filename is opened for writing and awaited.
CreateJobAccept(r, f, t) ==
    /\ t >= now
    /\ now' = t
    /\ req' = [req EXCEPT ![r] =
                 [pc |-> IF f.file = "named" THEN "await" ELSE "status_open",
                  file |-> f.file, yt |-> f.yt, sp |-> f.sp,
                  speaker |-> f.speaker, device |-> f.device,
                  job |-> JobIdOf(t), resp |-> "none"]]
    /\ dirs' = dirs \cup {JobIdOf(t)}

\* main.py:131-146: the handler from its start to its first await.  Requests
\* are numbered in the order they arrive.
CreateJobBegin(r) ==
    /\ req[r].pc = "new"
    /\ \A q \in Reqs : q < r => req[q].pc # "new"
    /\ LoopIdle
    /\ \E f \in forms :
          IF Rejected(f.file, f.yt, f.sp)
          THEN CreateJobReject(r)
          ELSE \E t \in Instants : CreateJobAccept(r, f, t)
    /\ UNCHANGED <<ex, ck, forms, poll, dl, status, step, files, errlog, envSpeaker,
                   envDevice, wk>>

\* main.py:146  f.write(await file.read()): the coroutine is resumed.
CreateJobResume(r) ==
    /\ req[r].pc = "await"
    /\ LoopIdle
    /\ req' = [req EXCEPT ![r].pc = "status_open"]
    /\ UNCHANGED <<ex, ck, forms, poll, dl, now, store, envSpeaker, envDevice, wk>>

\* main.py:148  write_text("running"): Path.write_text opens the file with
\* mode "w" (the file now exists and is empty) ...
CreateJobStatusOpen(r) ==
    /\ req[r].pc = "status_open"
    /\ status' = [status EXCEPT ![req[r].job] = ""]
    /\ req' = [req EXCEPT ![r].pc = "status_write"]
    /\ UNCHANGED <<ex, ck, forms, poll, dl, now, dirs, step, files, errlog, envSpeaker, envDevice, wk>>

\* ... and then writes the text.
CreateJobStatusWrite(r) ==
    /\ req[r].pc = "status_write"
    /\ status' = [status EXCEPT ![req[r].job] = "running"]
    /\ req' = [req EXCEPT ![r].pc = "step"]
    /\ UNCHANGED <<ex, ck, forms, poll, dl, now, dirs, step, files, errlog, envSpeaker, envDevice, wk>>

\* main.py:150-155
InitialStep(yt, sp) ==
    IF yt # "none" THEN "init_youtube"
    ELSE IF sp # "none" THEN "init_spotify"
    ELSE "init"

CreateJobStep(r) ==
    /\ req[r].pc = "step"
    /\ step' = [step EXCEPT ![req[r].job] = InitialStep(req[r].yt, req[r].sp)]
    /\ req' = [req EXCEPT ![r].pc = "start"]
    /\ UNCHANGED <<ex, ck, forms, poll, dl, now, dirs, status, files, errlog, envSpeaker, envDevice, wk>>

\* main.py:158-165  threading.Thread(...).start(); return {"job_id": job_id}
CreateJobStart(r) ==
    /\ req[r].pc = "start"
    /\ wk' = [wk EXCEPT ![r] =
                [NoWorker EXCEPT !.pc = "env_speaker",
                                 !.job = req[r].job,
                                 !.in_path = IF req[r].file = "named"
                                             THEN "input.mp3" ELSE "none",
                                 !.yt = req[r].yt,
                                 !.sp = req[r].sp]]
    /\ req' = [req EXCEPT ![r].pc = "done", ![r].resp = "job_id",
                          ![r].file = "none", ![r].yt = "none", ![r].sp = "none"]
    /\ UNCHANGED <<ex, ck, forms, poll, dl, now, store, envSpeaker, envDevice>>

\* ------------------------------------------------ _run_pipeline_bg (worker)
\* A worker whose thread died without reaching the handler of main.py:100.
OnExceptionUncaught == "end"

\* main.py:100  except Exception: every exception raised between main.py:86
\* and main.py:99 continues at main.py:102.
OnException == "error_open"

\* The worker thread w moves to position pc.
SetPc(w, pc) == wk' = [wk EXCEPT ![w].pc = pc]

\* main.py:86  os.environ["TTS_SPEAKER"] = speaker
WorkerSetEnvSpeaker(w) ==
    /\ wk[w].pc = "env_speaker"
    /\ envSpeaker' = req[w].speaker
    /\ SetPc(w, "env_device")
    /\ UNCHANGED <<ex, ck, forms, poll, dl, now, req, store, envDevice>>

\* main.py:87  os.environ["TTS_DEVICE"] = device
WorkerSetEnvDevice(w) ==
    /\ wk[w].pc = "env_device"
    /\ envDevice' = req[w].device
    /\ SetPc(w, "fetch")
    /\ UNCHANGED <<ex, ck, forms, poll, dl, now, req, store, envSpeaker>>

\* is_youtube_url / is_spotify_url, imported from app.pipeline by main.py:88:
\* the recognisers of the two kinds of remote source.  Their definitions and
\* those of the two download functions are not in pipeline.py; they are taken
\* from the interface RemoteFetcher.fetch(url, destDir) -> localAudioPath.
is_youtube_url(url) == url = "ok"

is_spotify_url(url) == url = "ok"

\* main.py:91-95: which remote fetch, if any, the worker performs.
FetchKind(yt, sp) ==
    IF yt # "none" /\ is_youtube_url(yt) THEN "youtube"
    ELSE IF sp # "none" /\ is_spotify_url(sp) THEN "spotify"
    ELSE "none"

\* RemoteFetcher.fetch(url, destDir): returns the local audio path or raises.
FetchOutcomes(kind) ==
    IF kind = "youtube" THEN {"youtube_audio", "raise"}
    ELSE IF kind = "spotify" THEN {"spotify_audio", "raise"}
    ELSE {}

\* main.py:90-95.  The url arguments are not read after this point.
WorkerFetch(w) ==
    /\ wk[w].pc = "fetch"
    /\ LET kind == FetchKind(wk[w].yt, wk[w].sp) IN
       IF kind = "none"
       THEN wk' = [wk EXCEPT ![w].pc = "step1", ![w].yt = "none", ![w].sp = "none"]
       ELSE \E out \in FetchOutcomes(kind) :
              IF out = "raise"
              THEN wk' = [wk EXCEPT ![w].pc = OnException,
                                    ![w].yt = "none", ![w].sp = "none"]
              ELSE wk' = [wk EXCEPT ![w].pc = "step1", ![w].in_path = out,
                                    ![w].yt = "none", ![w].sp = "none"]
    /\ UNCHANGED <<ex, ck, forms, poll, dl, now, req, store, envSpeaker, envDevice>>

\* ------------------------------------------------------ pipeline.main
StepPc(k) == CASE k = 1 -> "step1" [] k = 2 -> "step2" [] k = 3 -> "step3"
               [] k = 4 -> "step4" [] k = 5 -> "step5"

RunPc(k) == CASE k = 1 -> "run1" [] k = 2 -> "run2" [] k = 3 -> "run3"
              [] k = 4 -> "run4" [] k = 5 -> "run5"

StepMsg(k) == CASE k = 1 -> "stage1" [] k = 2 -> "stage2" [] k = 3 -> "stage3"
                [] k = 4 -> "stage4" [] k = 5 -> "stage5"

\* pipeline.py:15-17, called at 203, 209, 248, 258, 266: the step description
\* is written before the stage.  Stage 4 reads its configuration next.
WriteStep(w, k) ==
    /\ wk[w].pc = StepPc(k)
    /\ step' = [step EXCEPT ![wk[w].job] = StepMsg(k)]
    /\ SetPc(w, IF k = 4 THEN "getenv_speaker" ELSE RunPc(k))
    /\ UNCHANGED <<ex, ck, forms, poll, dl, now, req, dirs, status, files, errlog, envSpeaker, envDevice>>

\* pipeline.py:260  speaker = os.getenv("TTS_SPEAKER", "SF")
GetEnvSpeaker(w) ==
    /\ wk[w].pc = "getenv_speaker"
    /\ wk' = [wk EXCEPT ![w].pc = "getenv_device",
                        ![w].useSpeaker = IF envSpeaker = "unset" THEN "SF"
                                          ELSE envSpeaker]
    /\ UNCHANGED <<ex, ck, forms, poll, dl, now, req, store, envSpeaker, envDevice>>

\* pipeline.py:261  tts_device = os.getenv("TTS_DEVICE", "cpu")
GetEnvDevice(w) ==
    /\ wk[w].pc = "getenv_device"
    /\ wk' = [wk EXCEPT ![w].pc = "run4",
                        ![w].useDevice = IF envDevice = "unset" THEN "cpu"
                                         ELSE envDevice]
    /\ UNCHANGED <<ex, ck, forms, poll, dl, now, req, store, envSpeaker, envDevice>>

\* The files a stage leaves in outputs/ when it returns.
\* pipeline.py:205, 240, 251, 262, 267.
StageOutputs(k, speaker) ==
    CASE k = 1 -> {"podcast_en_16k.wav"}
      [] k = 2 -> {"podcast_en.txt"}
      [] k = 3 -> {"podcast_vi.txt"}
      [] k = 4 -> {WavName(speaker)}
      [] k = 5 -> {Mp3Name(speaker)}

\* Whether the stage can return.  Stage 1 runs ffmpeg on str(in_audio): with
\* in_audio None there is no input and ffmpeg exits non-zero.
CanSucceed(w, k) == k = 1 => wk[w].in_path # "none"

\* A pipeline that runs a stage again after it returned.
AfterStageAgain(k) == StepPc(k)

\* A pipeline that returns to main.py:98 without encoding.
AfterStageUnencoded(k) == IF k < 4 THEN StepPc(k + 1) ELSE "done_open"

\* Where the worker goes after stage k returned: the next stage, or back to
\* main.py:98.
AfterStage(k) == IF k < 5 THEN StepPc(k + 1) ELSE "done_open"

\* One stage of pipeline.main (run_ffmpeg_to_16k, transcription,
\* translate_en2vi, tts_speak, wav_to_mp3): it returns, having written its
\* outputs, or raises; an exception leaves main and reaches main.py:100.
\* Locals that are not read again are dropped (in_audio after stage 1,
\* tts_device after stage 4, speaker after stage 5).
RunStage(w, k) ==
    /\ wk[w].pc = RunPc(k)
    /\ \E ok \in BOOLEAN :
         /\ ok => CanSucceed(w, k)
         /\ IF ok
            THEN /\ wk' = [wk EXCEPT ![w].pc = AfterStage(k),
                                     ![w].in_path = "none",
                                     ![w].useDevice = IF k >= 4 THEN "none" ELSE @,
                                     ![w].useSpeaker = IF k = 5 THEN "none" ELSE @,
                                     ![w].began = Append(@, k),
                                     ![w].completed = k]
                 /\ files' = [files EXCEPT ![wk[w].job] =
                                 @ \cup StageOutputs(k, wk[w].useSpeaker)]
            ELSE /\ wk' = [wk EXCEPT ![w].pc = OnException,
                                     ![w].in_path = "none",
                                     ![w].useDevice = "none",
                                     ![w].useSpeaker = "none",
                                     ![w].began = Append(@, k)]
                 /\ UNCHANGED files
    /\ UNCHANGED <<ex, ck, forms, poll, dl, now, req, dirs, status, step, errlog, envSpeaker, envDevice>>

\* main.py:98  write_text("done"): open ...
WorkerDoneOpen(w) ==
    /\ wk[w].pc = "done_open"
    /\ status' = [status EXCEPT ![wk[w].job] = ""]
    /\ SetPc(w, "done_write")
    /\ UNCHANGED <<ex, ck, forms, poll, dl, now, req, dirs, step, files, errlog, envSpeaker, envDevice>>

\* ... and write.
WorkerDoneWrite(w) ==
    /\ wk[w].pc = "done_write"
    /\ status' = [status EXCEPT ![wk[w].job] = "done"]
    /\ SetPc(w, "done_step")
    /\ UNCHANGED <<ex, ck, forms, poll, dl, now, req, dirs, step, files, errlog, envSpeaker, envDevice>>

\* main.py:99
WorkerDoneStep(w) ==
    /\ wk[w].pc = "done_step"
    /\ step' = [step EXCEPT ![wk[w].job] = "finished"]
    /\ SetPc(w, "end")
    /\ UNCHANGED <<ex, ck, forms, poll, dl, now, req, dirs, status, files, errlog, envSpeaker, envDevice>>

\* main.py:102  write_text("error"): open ...
WorkerErrorOpen(w) ==
    /\ wk[w].pc = "error_open"
    /\ status' = [status EXCEPT ![wk[w].job] = ""]
    /\ SetPc(w, "error_write")
    /\ UNCHANGED <<ex, ck, forms, poll, dl, now, req, dirs, step, files, errlog, envSpeaker, envDevice>>

\* A handler that ends the step record as the normal return does.
WorkerErrorWriteWithStep(w) ==
    /\ wk[w].pc = "error_write"
    /\ status' = [status EXCEPT ![wk[w].job] = "error"]
    /\ step' = [step EXCEPT ![wk[w].job] = "finished"]
    /\ SetPc(w, "error_log")
    /\ UNCHANGED <<ex, ck, forms, poll, dl, now, req, dirs, files, errlog, envSpeaker, envDevice>>

\* ... and write.
WorkerErrorWrite(w) ==
    /\ wk[w].pc = "error_write"
    /\ status' = [status EXCEPT ![wk[w].job] = "error"]
    /\ SetPc(w, "error_log")
    /\ UNCHANGED <<ex, ck, forms, poll, dl, now, req, dirs, step, files, errlog, envSpeaker, envDevice>>

\* A handler that ends without writing the traceback.
WorkerErrorLogSkipped(w) ==
    /\ wk[w].pc = "error_log"
    /\ SetPc(w, "end")
    /\ UNCHANGED <<ex, ck, forms, poll, dl, now, req, dirs, status, step, files, errlog, envSpeaker, envDevice>>

\* main.py:103
WorkerErrorLog(w) ==
    /\ wk[w].pc = "error_log"
    /\ errlog' = [errlog EXCEPT ![wk[w].job] = TRUE]
    /\ SetPc(w, "end")
    /\ UNCHANGED <<ex, ck, forms, poll, dl, now, req, dirs, status, step, files, envSpeaker, envDevice>>

\* --------------------------------------------------- the file system
\* A path is the sequence of its components below the root of the file
\* system.  ROOT is the project directory (main.py:15).
ROOT == <<"srv">>

\* main.py:16
JOBS_DIR == ROOT \o <<"storage", "jobs">>

\* The directory name of a job identity.
JobName(j) == ToString(j)

JobNames == {JobName(j) : j \in JobIds}

IsPrefix(a, b) == Len(a) <= Len(b) /\ SubSeq(b, 1, Len(a)) = a

\* Files that exist whatever the jobs do.
AmbientFiles == {<<"etc", "passwd">>}

AmbientDirs == {<<>>, <<"etc">>, ROOT, ROOT \o <<"storage">>, JOBS_DIR}

\* The files of job j, as the model's state has them.
JobFiles(j) ==
    LET d == JOBS_DIR \o <<JobName(j)>> IN
    {d \o <<"status.txt">> : x \in {1} \cap (IF status[j] # "absent" THEN {1} ELSE {})}
    \cup {d \o <<"step.txt">> : x \in {1} \cap (IF step[j] # "absent" THEN {1} ELSE {})}
    \cup {d \o <<"logs", "error.log">> : x \in {1} \cap (IF errlog[j] THEN {1} ELSE {})}
    \cup {d \o <<"outputs", f>> : f \in files[j]}

\* main.py:41-44
JobDirs(j) ==
    LET d == JOBS_DIR \o <<JobName(j)>> IN
    {d, d \o <<"inputs">>, d \o <<"outputs">>, d \o <<"logs">>}

IsFile(p) == p \in AmbientFiles \/ \E j \in dirs : p \in JobFiles(j)

IsDir(p) == p \in AmbientDirs \/ \E j \in dirs : p \in JobDirs(j)

\* Path.exists()
Exists(p) == IsFile(p) \/ IsDir(p)

\* Path.resolve() without symbolic links: "." is dropped and ".." removes the
\* component before it (the root is its own parent).
RECURSIVE ResolveFrom(_, _)
ResolveFrom(done, rest) ==
    IF rest = <<>> THEN done
    ELSE LET c == Head(rest) IN
         ResolveFrom(IF c = "." THEN done
                     ELSE IF c = ".." THEN
                              (IF done = <<>> THEN done
                               ELSE SubSeq(done, 1, Len(done) - 1))
                     ELSE Append(done, c),
                     Tail(rest))

Resolve(p) == ResolveFrom(<<>>, p)

\* pathlib's "/": an absolute right operand replaces the left one.
JoinPath(base, abs, comps) == IF abs THEN comps ELSE base \o comps

\* Path.parents: the proper ancestors of p.
Parents(p) == {SubSeq(p, 1, n) : n \in 0..(Len(p) - 1)}

\* ------------------------------------------------------ get_job (GET)
\* main.py:170  job_dir = JOBS_DIR / job_id
JobDir(job_id) == JOBS_DIR \o <<job_id>>

\* The job whose directory has the name job_id.
JobOf(job_id) == CHOOSE j \in JobIds : JobName(j) = job_id

\* A reader that has no default for a missing status record.
ReadStatusTextNoDefault(job_id) ==
    IF IsFile(Resolve(JobDir(job_id) \o <<"status.txt">>))
    THEN status[JobOf(job_id)] ELSE ""

\* main.py:49-52: "unknown" without a status record, else its stripped text.
ReadStatusText(job_id) ==
    IF IsFile(Resolve(JobDir(job_id) \o <<"status.txt">>))
    THEN status[JobOf(job_id)] ELSE "unknown"

\* main.py:50-54: "" without a step record, else its stripped text.
ReadStepText(job_id) ==
    IF IsFile(Resolve(JobDir(job_id) \o <<"step.txt">>))
    THEN step[JobOf(job_id)] ELSE ""

\* main.py:56-61: the files below outputs/, none without that directory.
ListOutputs(job_id) ==
    IF IsDir(Resolve(JobDir(job_id) \o <<"outputs">>))
    THEN files[JobOf(job_id)] ELSE {}

\* main.py:64-71: the text of an output file (its name stands for its
\* content), "" without the file.
ReadText(job_id, name) ==
    IF IsFile(Resolve(JobDir(job_id) \o <<"outputs", name>>)) THEN name ELSE ""

\* The path parameter of GET /jobs/{job_id}: one path segment, the name of a
\* job directory or not.
PollJobs == JobNames \cup {".."}

\* main.py:170-172: a job_dir that does not exist is answered 404.
GetJobBegin(job_id) ==
    /\ poll.pc \in {"idle", "returned"}
    /\ IF Exists(Resolve(JobDir(job_id)))
       THEN poll' = [NoPoll EXCEPT !.pc = "read_status", !.job = job_id]
       ELSE poll' = [NoPoll EXCEPT !.pc = "returned", !.job = job_id, !.resp = "404"]
    /\ UNCHANGED <<ex, ck, now, forms, req, store, envSpeaker, envDevice, wk, dl>>

\* main.py:51-52
GetJobReadStatus ==
    /\ poll.pc = "read_status"
    /\ poll' = [poll EXCEPT !.pc = "read_step", !.status = ReadStatusText(poll.job)]
    /\ UNCHANGED <<ex, ck, now, forms, req, store, envSpeaker, envDevice, wk, dl>>

\* main.py:53-54
GetJobReadStep ==
    /\ poll.pc = "read_step"
    /\ poll' = [poll EXCEPT !.pc = "read_files", !.step = ReadStepText(poll.job)]
    /\ UNCHANGED <<ex, ck, now, forms, req, store, envSpeaker, envDevice, wk, dl>>

\* main.py:56-80: the listing of outputs/, the two texts and the snapshot
\* returned.
GetJobReturn ==
    /\ poll.pc = "read_files"
    /\ poll' = [poll EXCEPT !.pc = "returned",
                            !.files = ListOutputs(poll.job),
                            !.en_text = ReadText(poll.job, "podcast_en.txt"),
                            !.vi_text = ReadText(poll.job, "podcast_vi.txt"),
                            !.resp = "200"]
    /\ UNCHANGED <<ex, ck, now, forms, req, store, envSpeaker, envDevice, wk, dl>>

GetJob ==
    \/ \E job_id \in PollJobs : GetJobBegin(job_id)
    \/ GetJobReadStatus
    \/ GetJobReadStep
    \/ GetJobReturn

\* ------------------------------------------------------ list_jobs (GET)
RECURSIVE SortedDesc(_)
SortedDesc(S) ==
    IF S = {} THEN <<>>
    ELSE LET m == CHOOSE x \in S : \A y \in S : y <= x
         IN <<m>> \o SortedDesc(S \ {m})

\* main.py:116-120: the directory names under JOBS_DIR, sorted in reverse.
list_jobs == SortedDesc(dirs)

\* --------------------------------------------------- download (GET)
\* A check against the jobs directory instead of the job's outputs area.
ContainedInJobsDir(base, file_path) == JOBS_DIR \in Parents(file_path)

\* main.py:182  the negation of
\*   base not in file_path.parents and file_path != base
Contained(base, file_path) == base \in Parents(file_path) \/ file_path = base

\* main.py:178-187: the n-th download request and its response.
DownloadResponse(n, job_id, abs, comps) ==
    LET outputs == JOBS_DIR \o <<job_id, "outputs">>
        base == Resolve(outputs)
        file_path == Resolve(JoinPath(outputs, abs, comps))
    IN  [n |-> n, job |-> job_id, path |-> comps, abs |-> abs, target |-> file_path,
         code |-> IF ~Contained(base, file_path) THEN "400"
                  ELSE IF ~Exists(file_path) THEN "404"
                  ELSE "FileResponse"]

\* The identities and paths the download requests of the model carry.
DownloadJobs == JobNames \cup {".."}

UpToRoot == [i \in 1..(Len(JOBS_DIR) + 2) |-> ".."]

DownloadPaths ==
    {[abs |-> FALSE, comps |-> c] :
        c \in {<<>>, <<"podcast_en.txt">>, <<"missing.txt">>,
               <<"..", "status.txt">>,
               <<"..", "..", "etc", "passwd">>,
               UpToRoot \o <<"etc", "passwd">>,
               <<"..", "outputs", "podcast_en.txt">>}
              \cup {<<"..", "..", n, "outputs", "podcast_en.txt">> : n \in JobNames}}
    \cup {[abs |-> TRUE, comps |-> <<"etc", "passwd">>]}

Download ==
    /\ dl.n < MaxDownloads
    /\ \E job_id \in DownloadJobs, path \in DownloadPaths :
          dl' = DownloadResponse(dl.n + 1, job_id, path.abs, path.comps)
    /\ UNCHANGED <<ex, ck, now, forms, req, store, envSpeaker, envDevice, wk, poll>>

\* ------------------------------------------- the model-backed stages
\* One run of transcription (pipeline.py:208-245), of translate_en2vi or of
\* tts_speak, looked at call by call.
ModelStages == {"asr", "translate", "tts"}

\* What a call of a collaborator does: it returns, or it raises a
\* RuntimeError whose message contains "out of memory", another RuntimeError,
\* or another Exception.
Outcomes == {"ok", "oom", "runtime", "error"}

\* What loading a model on a device does.
LoadOutcomes == {"ok", "raise"}

\* The stage runs looked at: torch.cuda.is_available(), the device the job
\* asks for, the number of chunks (transcription makes one call), and the
\* segment files that exist in tts_segs when tts_speak starts.
ExecRuns ==
    { [pc |-> "load", stage |-> st, cuda |-> c, pref |-> d, n |-> n, pre |-> pre,
       device |-> "none", fallback |-> FALSE, i |-> 1, log |-> <<>>,
       collect |-> "none", out |-> <<>>, switches |-> 0, raised |-> "none",
       steps |-> <<>>] :
         st \in ModelStages, c \in BOOLEAN, d \in Devices,
         n \in 0..MaxChunks, pre \in SUBSET (1..MaxChunks) }

ExecInits ==
    { e \in ExecRuns :
        /\ e.stage = "asr" => e.n = 1
        /\ e.pre \subseteq 1..e.n
        /\ e.stage # "tts" => e.pre = {} }

\* One call of a collaborator: the chunk, the device of the model it was made
\* on, what it did, and whether it repeats a call that failed.
Attempt(i, d, o, r) == [chunk |-> i, device |-> d, outcome |-> o, retry |-> r]

\* The stage ends with an exception raised by its part `by`.
Raise(e, by) == [e EXCEPT !.pc = "raised", !.raised = by]

\* Every RuntimeError is taken for resource exhaustion.
IsOomAnyRuntime(o) == o \in {"oom", "runtime"}

\* No error is taken for resource exhaustion.
IsOomNever(o) == FALSE

\* pipeline.py:100-101, 179-180, 229-230
\*   except RuntimeError as e: if "out of memory" in str(e).lower()
IsOom(o) == o = "oom"

\* A stage that falls back at every resource exhaustion.
MayFallBackAgain(e, o) == IsOom(o)

\* pipeline.py:101, 180  ... and not cpu_fallback
MayFallBack(e, o) == IsOom(o) /\ ~e.fallback

\* A fallback that loads the model on the GPU again.
FallbackDeviceGpu == "cuda"

\* pipeline.py:105, 183, 234: the device of the model after the fallback.
FallbackDevice == "cpu"

\* The model is loaded on the GPU if that is wanted and succeeds, else on the
\* CPU; an exception of the CPU load leaves the stage.
LoadModel(e, useGpu, gpu, cpu) ==
    IF useGpu /\ gpu = "ok" THEN [e EXCEPT !.pc = "loop", !.device = "cuda"]
    ELSE IF cpu = "ok" THEN [e EXCEPT !.pc = "loop", !.device = "cpu"]
    ELSE Raise(e, "load")

\* The fallback of a stage at chunk i after the call a1 failed: the model is
\* loaded on the CPU and the call is made once more, with outcome o2.
FellBack(e, a1, o2) ==
    [e EXCEPT !.log = @ \o <<a1, Attempt(a1.chunk, FallbackDevice, o2, TRUE)>>,
              !.device = FallbackDevice,
              !.fallback = TRUE,
              !.switches = @ + 1]

\* The call for chunk i returned: its result is kept and the loop goes on.
Kept(e) == [e EXCEPT !.out = Append(@, e.i), !.i = @ + 1]

\* A stage that a failed chunk ends.
SkippedAborting(e) == Raise(e, "call")

\* The chunk is left out and the loop goes on.
Skipped(e) == [e EXCEPT !.i = @ + 1]

Logged(e, a) == [e EXCEPT !.log = Append(@, a)]

\* A loop that counts its chunks from 0.
SteppedFromZero(e) ==
    [e EXCEPT !.steps = Append(@, [i |-> e.i - 1, total |-> e.n, calls |-> Len(e.log)])]

\* pipeline.py:95, 169  _write_step(job_dir, f"... {i}/{total}..."): the
\* progress of the loop is written at the head of the iteration, when the
\* stage has made `calls` calls.
Stepped(e) ==
    [e EXCEPT !.steps = Append(@, [i |-> e.i, total |-> e.n, calls |-> Len(e.log)])]

\* pipeline.py:213-225: WhisperModel on cuda if available, else on cpu.
AsrLoad ==
    /\ ex.pc = "load" /\ ex.stage = "asr"
    /\ \E gpu \in LoadOutcomes, cpu \in LoadOutcomes :
          ex' = LoadModel(ex, ex.cuda, gpu, cpu)
    /\ UNCHANGED <<jobVars, ck>>

\* pipeline.py:227-237: transcribe; on "out of memory" a CPU model is made and
\* transcribe is called again; every other exception leaves the stage.  The
\* call returns the segments as an iterable.
Transcribed(e, o1, sw, o2) ==
    LET a1 == Attempt(1, e.device, o1, FALSE) IN
    IF o1 = "ok" THEN [Logged(e, a1) EXCEPT !.pc = "collect"]
    ELSE IF IsOom(o1) THEN
        IF sw # "ok" THEN Raise(Logged(e, a1), "switch")
        ELSE LET e2 == [FellBack(e, a1, o2) EXCEPT !.fallback = FALSE] IN
             IF o2 = "ok" THEN [e2 EXCEPT !.pc = "collect"]
             ELSE Raise(e2, "call")
    ELSE Raise(Logged(e, a1), "call")

AsrTranscribe ==
    /\ ex.pc = "loop" /\ ex.stage = "asr"
    /\ \E o1 \in Outcomes, sw \in LoadOutcomes, o2 \in Outcomes :
          ex' = Transcribed(ex, o1, sw, o2)
    /\ UNCHANGED <<jobVars, ck>>

\* pipeline.py:238-240: the segments are iterated, after the try statement of
\* line 227 was left.  faster_whisper's transcribe returns a generator and
\* decodes while it is iterated: the iteration runs on the model's device and
\* returns or raises as a call does.
AsrCollect ==
    /\ ex.pc = "collect" /\ ex.stage = "asr"
    /\ \E o \in Outcomes :
          ex' = IF o = "ok" THEN [Kept(ex) EXCEPT !.collect = o, !.pc = "returned"]
                ELSE Raise([ex EXCEPT !.collect = o], "collect")
    /\ UNCHANGED <<jobVars, ck>>

\* pipeline.py:144-160: the model is moved to cuda if available, else to cpu.
TranslateLoad ==
    /\ ex.pc = "load" /\ ex.stage = "translate"
    /\ \E gpu \in LoadOutcomes, cpu \in LoadOutcomes :
          ex' = LoadModel(ex, ex.cuda, gpu, cpu)
    /\ UNCHANGED <<jobVars, ck>>

\* A translation that leaves out the chunks whose call fails.
TranslatedSkipping(e, o1, sw, o2) ==
    LET a1 == Attempt(e.i, e.device, o1, FALSE) IN
    IF o1 = "ok" THEN Kept(Logged(e, a1)) ELSE Skipped(Logged(e, a1))

\* pipeline.py:168-193: one iteration of the loop of translate_en2vi.
Translated(e, o1, sw, o2) ==
    LET a1 == Attempt(e.i, e.device, o1, FALSE) IN
    IF o1 = "ok" THEN Kept(Logged(e, a1))
    ELSE IF MayFallBack(e, o1) THEN
        IF sw # "ok" THEN Raise(Logged(e, a1), "switch")
        ELSE LET e2 == FellBack(e, a1, o2) IN
             IF o2 = "ok" THEN Kept(e2) ELSE Raise(e2, "call")
    ELSE Raise(Logged(e, a1), "call")

TranslateChunk ==
    /\ ex.pc = "loop" /\ ex.stage = "translate" /\ ex.i <= ex.n
    /\ \E o1 \in Outcomes, sw \in LoadOutcomes, o2 \in Outcomes :
          ex' = Translated(Stepped(ex), o1, sw, o2)
    /\ UNCHANGED <<jobVars, ck>>

\* pipeline.py:195
TranslateReturn ==
    /\ ex.pc = "loop" /\ ex.stage = "translate" /\ ex.i > ex.n
    /\ ex' = [ex EXCEPT !.pc = "returned"]
    /\ UNCHANGED <<jobVars, ck>>

\* pipeline.py:69-85: TTS on cuda if the device asked for is cuda and cuda is
\* available, else on cpu.
TtsLoad ==
    /\ ex.pc = "load" /\ ex.stage = "tts"
    /\ \E gpu \in LoadOutcomes, cpu \in LoadOutcomes :
          ex' = LoadModel(ex, ex.pref = "cuda" /\ ex.cuda, gpu, cpu)
    /\ UNCHANGED <<jobVars, ck>>

\* pipeline.py:94-118: one iteration of the loop of tts_speak.  A segment file
\* that exists is taken without a call; a failed call leaves the chunk out.
Spoken(e, o1, sw, o2) ==
    LET a1 == Attempt(e.i, e.device, o1, FALSE) IN
    IF e.i \in e.pre THEN Kept(e)
    ELSE IF o1 = "ok" THEN Kept(Logged(e, a1))
    ELSE IF MayFallBack(e, o1) THEN
        IF sw # "ok" THEN Raise(Logged(e, a1), "switch")
        ELSE LET e2 == FellBack(e, a1, o2) IN
             IF o2 = "ok" THEN Kept(e2) ELSE Skipped(e2)
    ELSE Skipped(Logged(e, a1))

TtsSpeakChunk ==
    /\ ex.pc = "loop" /\ ex.stage = "tts" /\ ex.i <= ex.n
    /\ \E o1 \in Outcomes, sw \in LoadOutcomes, o2 \in Outcomes :
          ex' = Spoken(Stepped(ex), o1, sw, o2)
    /\ UNCHANGED <<jobVars, ck>>

\* A stage that concatenates whatever it has.
NoSegmentNever(seg_files) == FALSE

\* pipeline.py:120  if not seg_files
NoSegment(seg_files) == seg_files = <<>>

\* pipeline.py:120-132: without a segment the stage raises, else ffmpeg
\* concatenates the segments.
TtsConcat ==
    /\ ex.pc = "loop" /\ ex.stage = "tts" /\ ex.i > ex.n
    /\ IF NoSegment(ex.out) THEN ex' = Raise(ex, "noseg")
       ELSE \E ffmpeg \in LoadOutcomes :
              ex' = IF ffmpeg = "ok" THEN [ex EXCEPT !.pc = "returned"]
                    ELSE Raise(ex, "concat")
    /\ UNCHANGED <<jobVars, ck>>

StageNext ==
    \/ AsrLoad
    \/ AsrTranscribe
    \/ AsrCollect
    \/ TranslateLoad
    \/ TranslateChunk
    \/ TranslateReturn
    \/ TtsLoad
    \/ TtsSpeakChunk
    \/ TtsConcat

\* ------------------------------------------- chunk_text, chunk_text_translate
\* A text is the sequence of its characters: two letters, the space and the
\* line feed.
Letters == {"a", "b"}

Whitespace == {" "}

LineBreaks == {"\n"}

Chars == Letters \cup Whitespace \cup LineBreaks

Texts == UNION {[1..n -> Chars] : n \in 0..MaxLen}

\* s[:n] and s[n:]
Take(s, n) == SubSeq(s, 1, IF n < Len(s) THEN n ELSE Len(s))

\* A slice that keeps the whole text.
DropNothing(s, n) == s

Drop(s, n) == SubSeq(s, n + 1, Len(s))

\* str.strip(): leading and trailing whitespace (line breaks included) is
\* removed.
RECURSIVE LStrip(_)
LStrip(s) ==
    IF s # <<>> /\ Head(s) \in Whitespace \cup LineBreaks THEN LStrip(Tail(s)) ELSE s

RECURSIVE RStrip(_)
RStrip(s) ==
    IF s # <<>> /\ s[Len(s)] \in Whitespace \cup LineBreaks
    THEN RStrip(SubSeq(s, 1, Len(s) - 1)) ELSE s

\* A strip that leaves the whitespace at the end.
StripLeading(s) == LStrip(s)

Strip(s) == RStrip(LStrip(s))

\* str.splitlines(): the pieces between line breaks; a line break at the end
\* of the text opens no further line, and the empty text has no line.
RECURSIVE SplitFrom(_, _)
SplitFrom(cur, rest) ==
    IF rest = <<>> THEN (IF cur = <<>> THEN <<>> ELSE <<cur>>)
    ELSE IF Head(rest) \in LineBreaks THEN <<cur>> \o SplitFrom(<<>>, Tail(rest))
    ELSE SplitFrom(Append(cur, Head(rest)), Tail(rest))

splitlines(text) == SplitFrom(<<>>, text)

\* The two functions: chunk_text has the loop of pipeline.py:33-35,
\* chunk_text_translate has not.
ChunkFns == {"chunk_text", "chunk_text_translate"}

\* A chunking that cuts long lines in both functions.
HardSplitsAlways(fn) == TRUE

HardSplits(fn) == fn = "chunk_text"

\* A packing that forgets the separator.
OverflowsLoose(buf, line, max_chars) == Len(buf) + Len(line) > max_chars

\* A packing that flushes a buffer the line would fill exactly.
OverflowsEarly(buf, line, max_chars) == Len(buf) + Len(line) + 1 >= max_chars

\* pipeline.py:36, 54  if len(buf) + len(line) + 1 > max_chars
Overflows(buf, line, max_chars) == Len(buf) + Len(line) + 1 > max_chars

\* A packing that keeps the last line only.
JoinedDropping(buf, line) == line

\* pipeline.py:41, 59  (buf + " " + line).strip()
Joined(buf, line) == Strip(buf \o <<" ">> \o line)

\* pipeline.py:37-38, 42-43, 55-56, 60-61  if buf.strip(): parts.append(buf.strip())
Flushed(parts, buf) == IF Strip(buf) # <<>> THEN Append(parts, Strip(buf)) ELSE parts

\* The calls looked at: the function, its text and its max_chars >= 1.
ChunkInits ==
    { [pc |-> "for", fn |-> fn, text |-> t, max_chars |-> m,
       lines |-> splitlines(t), line |-> <<>>, buf |-> <<>>, parts |-> <<>>] :
         fn \in ChunkFns, t \in Texts, m \in 1..MaxM }

\* pipeline.py:29-32, 50-53: the next line is taken and stripped; a blank
\* line is passed over.
ChunkLine ==
    /\ ck.pc = "for" /\ ck.lines # <<>>
    /\ LET line == Strip(Head(ck.lines)) IN
       ck' = [ck EXCEPT !.lines = Tail(@),
                        !.line = line,
                        !.pc = IF line = <<>> THEN "for"
                               ELSE IF HardSplits(ck.fn) THEN "while" ELSE "if"]
    /\ UNCHANGED <<jobVars, ex>>

\* pipeline.py:33-35: one test of the while loop of chunk_text and, if the
\* line is longer than max_chars, one iteration.
ChunkHardSplit ==
    /\ ck.pc = "while"
    /\ ck' = IF Len(ck.line) > ck.max_chars
             THEN [ck EXCEPT !.parts = Append(@, Strip(Take(ck.line, ck.max_chars))),
                             !.line = Strip(Drop(ck.line, ck.max_chars))]
             ELSE [ck EXCEPT !.pc = "if"]
    /\ UNCHANGED <<jobVars, ex>>

\* pipeline.py:36-41, 54-59: the line overflows the buffer, which is flushed,
\* or it is joined to the buffer.
ChunkPack ==
    /\ ck.pc = "if"
    /\ ck' = IF Overflows(ck.buf, ck.line, ck.max_chars)
             THEN [ck EXCEPT !.parts = Flushed(@, ck.buf), !.buf = ck.line,
                             !.line = <<>>, !.pc = "for"]
             ELSE [ck EXCEPT !.buf = Joined(@, ck.line),
                             !.line = <<>>, !.pc = "for"]
    /\ UNCHANGED <<jobVars, ex>>

\* pipeline.py:42-44, 60-62: the buffer left is flushed and parts is returned.
ChunkReturn ==
    /\ ck.pc = "for" /\ ck.lines = <<>>
    /\ ck' = [ck EXCEPT !.parts = Flushed(@, ck.buf), !.pc = "done"]
    /\ UNCHANGED <<jobVars, ex>>

ChunkNext ==
    \/ ChunkLine
    \/ ChunkHardSplit
    \/ ChunkPack
    \/ ChunkReturn

\* --------------------------------------------------------- specification
\* The steps of the handler of request r that follow its start.
CreateJobContinue(r) ==
    \/ CreateJobResume(r)
    \/ CreateJobStatusOpen(r)
    \/ CreateJobStatusWrite(r)
    \/ CreateJobStep(r)
    \/ CreateJobStart(r)

CreateJob == \E r \in Reqs : CreateJobBegin(r) \/ CreateJobContinue(r)

\* The steps of the worker thread w.
WorkerStep(w) ==
    \/ WorkerSetEnvSpeaker(w)
    \/ WorkerSetEnvDevice(w)
    \/ WorkerFetch(w)
    \/ \E k \in Stages : WriteStep(w, k)
    \/ GetEnvSpeaker(w)
    \/ GetEnvDevice(w)
    \/ \E k \in Stages : RunStage(w, k)
    \/ WorkerDoneOpen(w)
    \/ WorkerDoneWrite(w)
    \/ WorkerDoneStep(w)
    \/ WorkerErrorOpen(w)
    \/ WorkerErrorWrite(w)
    \/ WorkerErrorLog(w)

Worker == \E w \in Reqs : WorkerStep(w)

Next == CreateJob \/ Worker

Spec == Init /\ [][Next]_vars

\* The event loop resumes every coroutine that can run and the operating
\* system schedules every thread: a handler past its validation and a started
\* worker each take their next step eventually.
Fairness ==
    /\ \A r \in Reqs : WF_vars(CreateJobContinue(r))
    /\ \A w \in Reqs : WF_vars(WorkerStep(w))

FairSpec == Spec /\ Fairness

\* Clients that upload a file and leave speaker and device at their defaults.
PlainForms == DefaultForms \cap UploadForms

\* Jobs created by uploads with any speaker and device.
SpecConfig == InitWith(UploadForms) /\ [][Next]_vars

\* Uploaded jobs and a polling client.
SpecPoll == InitWith(PlainForms) /\ [][Next \/ GetJob]_vars

\* Uploaded jobs and a downloading client.
SpecDownload == InitWith(PlainForms) /\ [][Next \/ Download]_vars

\* One run of one model-backed stage, whatever its collaborators do.
SpecStage ==
    JobsInit(PlainForms) /\ ex \in ExecInits /\ ck = NoChunking /\ [][StageNext]_vars

\* One call of a chunking function on any text.
SpecChunk ==
    JobsInit(PlainForms) /\ ex = NoExec /\ ck \in ChunkInits /\ [][ChunkNext]_vars

\* The interpreter runs a call that can take a step.
ChunkFairness == WF_vars(ChunkNext)

FairSpecChunk == SpecChunk /\ ChunkFairness

\* =================================================================== claims
Terminal == {"done", "error"}

Accepted(r) == req[r].pc \notin {"new", "rejected"}

\* ---------------------------------------------------------------------- C1
\* C1: the status record of a job changes only from running to done or from
\* running to error, and a record holding done or error is never written
\* again.  (The empty content of a write in progress is not counted as a
\* value: a record may pass through it on its way from nothing to running and
\* from running to done or error.)
C1_StatusTransitions ==
    [][\A j \in JobIds :
         status'[j] # status[j] =>
            \/ status[j] \in {"absent", ""}
            \/ status[j] = "running" /\ status'[j] \in {"", "done", "error"}]_vars

\* ---------------------------------------------------------------------- C2
\* C2: any two accepted createJob requests receive distinct job identities.
C2_DistinctIdentities ==
    \A r1, r2 \in Reqs :
        Accepted(r1) /\ Accepted(r2) /\ r1 # r2 => req[r1].job # req[r2].job

\* ---------------------------------------------------------------------- C3
\* C3: every status value returned by getJob is one of running, done, error
\* or unknown, whatever writes the read is interleaved with.
C3_StatusNeverTorn ==
    poll.pc = "returned" /\ poll.resp = "200" =>
        poll.status \in {"running", "done", "error", "unknown"}

\* ---------------------------------------------------------------------- C4
\* Request r was given an identity that no other request of the run has.
OwnIdentity(r) == \A q \in Reqs : q # r /\ Accepted(q) => req[q].job # req[r].job

\* C4: the synthesis stage of every job runs with the speaker and the device
\* submitted with that job, and the audio it leaves is named for the job's
\* own speaker (jobs with an identity of their own: C2 is about the others).
C4_OwnConfiguration ==
    \A w \in Reqs :
        OwnIdentity(w) =>
            /\ wk[w].pc = "run4" =>
                  /\ wk[w].useSpeaker = req[w].speaker
                  /\ wk[w].useDevice = req[w].device
            /\ wk[w].completed >= 4 => WavName(req[w].speaker) \in files[wk[w].job]

\* ---------------------------------------------------------------------- C5
\* The outputs area of the job a download request names, and the path the
\* request resolves to.
OutputsArea(job_id) == Resolve(JOBS_DIR \o <<job_id, "outputs">>)

RequestedPath(d) == Resolve(JoinPath(JOBS_DIR \o <<d.job, "outputs">>, d.abs, d.path))

\* C5: download answers with a file only when the resolved path is inside or
\* equal to the job's outputs area, and a path that resolves outside it is
\* answered 400 whether or not a file exists there.
C5_DownloadContained ==
    dl.n > 0 =>
        /\ dl.code = "FileResponse" =>
              /\ dl.target = RequestedPath(dl)
              /\ IsPrefix(OutputsArea(dl.job), dl.target)
        /\ ~IsPrefix(OutputsArea(dl.job), RequestedPath(dl)) => dl.code = "400"

\* A traversal to a file that exists outside the outputs area was refused.
C5_Witness ==
    /\ dl.code = "400"
    /\ IsFile(RequestedPath(dl))
    /\ \E j \in dirs : dl.job = JobName(j)

\* ---------------------------------------------------------------------- C6
\* C6: the outcome of download is 400 if the path escapes the outputs area,
\* otherwise 404 if nothing exists at the resolved path, otherwise the bytes
\* of the file at the resolved path.
C6_DownloadOutcome ==
    [][dl'.n # dl.n =>
         LET d == dl' IN
         IF ~IsPrefix(OutputsArea(d.job), RequestedPath(d)) THEN d.code = "400"
         ELSE IF ~Exists(RequestedPath(d)) THEN d.code = "404"
         ELSE d.code = "FileResponse" /\ IsFile(d.target)]_vars

\* ---------------------------------------------------------------------- C7
\* The number of sources a form carries: an upload part (with or without a
\* filename: main.py:132 tests the part, not its name) and each fetch url.
SourcesPresent(file, yt, sp) ==
    (IF file # "none" THEN 1 ELSE 0) + (IF yt # "none" THEN 1 ELSE 0)
    + (IF sp # "none" THEN 1 ELSE 0)

\* C7: createJob accepts a request if and only if it carries exactly one
\* source.
C7_ExactlyOneSource ==
    \A r \in Reqs :
        req[r].pc \in {"await", "status_open", "status_write", "step", "start",
                       "rejected"} =>
            (Accepted(r) <=> SourcesPresent(req[r].file, req[r].yt, req[r].sp) = 1)

C9_JobsFinish ==
    \A r \in Reqs :
        Accepted(r) ~> [](req[r].job \in JobIds /\ status[req[r].job] \in Terminal)

\* A worker ended after a stage raised, and its job holds error.
C9_Witness ==
    \E w \in Reqs :
        /\ wk[w].pc = "end"
        /\ Len(wk[w].began) > wk[w].completed
        /\ status[wk[w].job] = "error"

\* --------------------------------------------------------------------- C10
\* C10: the stages of a job begin in the order 1, 2, 3, 4, 5, each at most
\* once, and a stage begins only when every stage before it has completed
\* without exception.
C10_StagesInOrder ==
    [][\A w \in Reqs :
         wk'[w].began # wk[w].began =>
            /\ wk[w].completed = Len(wk[w].began)
            /\ wk'[w].began = Append(wk[w].began, wk[w].completed + 1)
            /\ wk[w].completed + 1 \in Stages]_vars

\* A job ran all five stages.
C10_Witness == \E w \in Reqs : wk[w].began = <<1, 2, 3, 4, 5>> /\ wk[w].completed = 5

\* --------------------------------------------------------------------- C11
\* A stage of worker w raised: it began a stage that it did not complete.
Failed(w) == Len(wk[w].began) > wk[w].completed

\* C11: once a stage of a job raised, its worker starts no further stage and
\* is on its way through the exception handler; the handler has written error
\* to the status record when it turns to the log, and the log exists when the
\* worker has ended (the status record is the job's own for a job with an
\* identity of its own: C2 is about the others).
C11_StageFailureAborts ==
    \A w \in Reqs :
        Failed(w) =>
            /\ wk[w].pc \in {"error_open", "error_write", "error_log", "end"}
            /\ Len(wk[w].began) = wk[w].completed + 1
            /\ wk[w].pc \in {"error_log", "end"} /\ OwnIdentity(w) =>
                   status[wk[w].job] = "error"
            /\ wk[w].pc = "end" => errlog[wk[w].job]

\* The third stage of a job raised after two completed, and its worker ended.
C11_Witness ==
    \E w \in Reqs :
        /\ wk[w].began = <<1, 2, 3>>
        /\ wk[w].completed = 2
        /\ wk[w].pc = "end"
        /\ OwnIdentity(w)
        /\ files[wk[w].job] = {"podcast_en_16k.wav", "podcast_en.txt"}

\* --------------------------------------------------------------------- C12
\* C12: a status record holds done only if a worker of that job completed all
\* five stages and none of its stages raised, and every snapshot get_job
\* returns with status done lists the encoded audio (podcast_vi_<speaker>.mp3)
\* among its files.
C12_DoneMeansComplete ==
    /\ \A j \in JobIds :
          status[j] = "done" =>
             \E w \in Reqs : wk[w].job = j /\ wk[w].completed = 5 /\ ~Failed(w)
    /\ poll.pc = "returned" /\ poll.resp = "200" /\ poll.status = "done" =>
          \E s \in Speakers : Mp3Name(s) \in poll.files

\* A polling client was answered done for a job that was created.
C12_Witness ==
    /\ poll.pc = "returned"
    /\ poll.status = "done"
    /\ \E s \in Speakers : Mp3Name(s) \in poll.files
    /\ \E w \in Reqs : JobName(wk[w].job) = poll.job /\ wk[w].began = <<1, 2, 3, 4, 5>>

\* --------------------------------------------------------------------- C13
\* The positions in the log of the calls made for chunk i.
CallsFor(i) == {p \in DOMAIN ex.log : ex.log[p].chunk = i}

\* The call at position p of the log was made on the GPU and failed with
\* resource exhaustion.
GpuExhausted(p) == ex.log[p].device = "cuda" /\ ex.log[p].outcome = "oom"

\* The call at position p is followed by its retry on the CPU.
RetriedOnCpu(p) ==
    /\ p + 1 \in DOMAIN ex.log
    /\ ex.log[p + 1].retry
    /\ ex.log[p + 1].chunk = ex.log[p].chunk
    /\ ex.log[p + 1].device = "cpu"

FailedCalls ==
    Cardinality({p \in DOMAIN ex.log : ex.log[p].outcome # "ok"})
    + (IF ex.collect \notin {"none", "ok"} THEN 1 ELSE 0)

ExhaustedCalls ==
    Cardinality({p \in DOMAIN ex.log : ex.log[p].outcome = "oom"})
    + (IF ex.collect = "oom" THEN 1 ELSE 0)

\* A GPU call of the run failed with resource exhaustion.
GpuExhaustion ==
    \/ \E p \in DOMAIN ex.log : GpuExhausted(p)
    \/ ex.collect = "oom" /\ ex.device = "cuda"

\* C14: a stage never ends with the exception of a GPU call that failed with
\* resource exhaustion (the exception that leaves the stage is that of the
\* failed CPU retry), and a stage in which exactly one call fails, on the GPU
\* with resource exhaustion, and whose CPU model loads and CPU retry succeed,
\* returns with the results of all its chunks.
C14_ExhaustionRecovered ==
    /\ ex.pc = "raised" =>
          /\ ~(ex.raised = "call" /\ GpuExhausted(Len(ex.log)))
          /\ ~(ex.raised = "collect" /\ ex.collect = "oom" /\ ex.device = "cuda")
    /\ /\ ex.pc \in {"returned", "raised"}
       /\ ex.raised \notin {"load", "switch", "concat"}
       /\ FailedCalls = 1
       /\ ExhaustedCalls = 1
       /\ GpuExhaustion
       => /\ ex.pc = "returned"
          /\ ex.out = [i \in 1..ex.n |-> i]

\* --------------------------------------------------------------------- C15
\* C15: once the chunk loop of a stage has fallen back to the CPU at a chunk,
\* the model stays on the CPU and every call the stage makes afterwards, for
\* that chunk and for all later chunks, is a CPU call.
C15_FallbackSticky ==
    ex.pc # "idle" =>
        \A p \in DOMAIN ex.log :
            ex.log[p].retry =>
                /\ ex.device = "cpu"
                /\ \A q \in DOMAIN ex.log :
                      q >= p => ex.log[q].device = "cpu" /\ ex.log[q].chunk >= ex.log[p].chunk

\* A stage started on the GPU, fell back at its first chunk and made the
\* calls for two more chunks.
C15_Witness ==
    /\ ex.pc = "returned"
    /\ Len(ex.log) >= 4
    /\ ex.log[1].device = "cuda"
    /\ ex.log[2].retry
    /\ ex.log[3].chunk = 2
    /\ ex.log[4].chunk = 3

\* --------------------------------------------------------------------- C16
\* The failures that are not resource exhaustion.
OtherFailures == {"runtime", "error"}

\* C16: a step of a stage whose call fails with an error that is not resource
\* exhaustion makes that one call only (no retry), leaves the device of the
\* model and the fallback flag as they were, and counts no switch.
C16_NoFallbackOnOtherErrors ==
    [][/\ ex.pc \in {"loop", "collect"}
       /\ \/ /\ Len(ex'.log) > Len(ex.log)
             /\ ex'.log[Len(ex.log) + 1].outcome \in OtherFailures
          \/ /\ ex'.collect # ex.collect
             /\ ex'.collect \in OtherFailures
       => /\ Len(ex'.log) <= Len(ex.log) + 1
          /\ ex'.device = ex.device
          /\ ex'.fallback = ex.fallback
          /\ ex'.switches = ex.switches]_vars

\* A GPU call failed with an error that is not resource exhaustion and the
\* next chunk was called on the GPU.
C16_Witness ==
    /\ ex.pc # "idle"
    /\ \E p \in DOMAIN ex.log :
          /\ ex.log[p].outcome \in OtherFailures
          /\ ex.log[p].device = "cuda"
          /\ p + 1 \in DOMAIN ex.log
          /\ ex.log[p + 1].device = "cuda"
          /\ ex.log[p + 1].chunk = ex.log[p].chunk + 1

\* --------------------------------------------------------------------- C17
\* C17: every chunk chunk_text has produced, at every point of the call and
\* when it returns, has at most max_chars characters, for every text and
\* every max_chars >= 1.
C17_SynthesisChunksBounded ==
    ck.pc # "idle" /\ ck.fn = "chunk_text" =>
        \A k \in DOMAIN ck.parts : Len(ck.parts[k]) <= ck.max_chars

\* chunk_text returned after it cut a line longer than max_chars and after it
\* joined two lines into a chunk of exactly max_chars characters.
C17_Witness ==
    /\ ck.pc = "done" /\ ck.fn = "chunk_text"
    /\ \E l \in DOMAIN splitlines(ck.text) : Len(Strip(splitlines(ck.text)[l])) > ck.max_chars
    /\ \E k \in DOMAIN ck.parts :
          /\ Len(ck.parts[k]) = ck.max_chars
          /\ \E c \in DOMAIN ck.parts[k] : ck.parts[k][c] \in Whitespace

\* --------------------------------------------------------------------- C18
\* The trimmed non-blank lines of a text, in order.
RECURSIVE TrimmedLines(_)
TrimmedLines(ls) ==
    IF ls = <<>> THEN <<>>
    ELSE IF Strip(Head(ls)) = <<>> THEN TrimmedLines(Tail(ls))
    ELSE <<Strip(Head(ls))>> \o TrimmedLines(Tail(ls))

NonBlankLines(text) == TrimmedLines(splitlines(text))

\* The lines joined by single spaces.
RECURSIVE JoinLines(_)
JoinLines(ls) ==
    IF ls = <<>> THEN <<>>
    ELSE IF Len(ls) = 1 THEN Head(ls)
    ELSE Head(ls) \o <<" ">> \o JoinLines(Tail(ls))

\* The chunks are the joins of consecutive groups of one or more whole lines
\* that use up the lines, and a chunk longer than m is one line longer than m.
RECURSIVE GroupsWholeLines(_, _, _)
GroupsWholeLines(chunks, ls, m) ==
    IF chunks = <<>> THEN ls = <<>>
    ELSE \E k \in 1..Len(ls) :
            /\ Head(chunks) = JoinLines(SubSeq(ls, 1, k))
            /\ Len(Head(chunks)) > m => k = 1 /\ Len(ls[1]) > m
            /\ GroupsWholeLines(Tail(chunks), SubSeq(ls, k + 1, Len(ls)), m)

\* C18: chunk_text_translate returns the single-space joins of consecutive
\* whole trimmed non-blank lines of its text, no line cut, and a chunk longer
\* than max_chars is exactly one line that is longer than max_chars.
C18_TranslationKeepsLines ==
    ck.pc = "done" /\ ck.fn = "chunk_text_translate" =>
        GroupsWholeLines(ck.parts, NonBlankLines(ck.text), ck.max_chars)

\* chunk_text_translate returned a chunk longer than max_chars and a chunk
\* joined from two lines.
C18_Witness ==
    /\ ck.pc = "done" /\ ck.fn = "chunk_text_translate"
    /\ \E k \in DOMAIN ck.parts : Len(ck.parts[k]) > ck.max_chars
    /\ \E k \in DOMAIN ck.parts :
          \E c \in DOMAIN ck.parts[k] : ck.parts[k][c] \in Whitespace

\* --------------------------------------------------------------------- C19
\* The texts of a sequence one after the other.
RECURSIVE Concat(_)
Concat(ss) == IF ss = <<>> THEN <<>> ELSE Head(ss) \o Concat(Tail(ss))

\* A text without its whitespace.
Squash(s) == SelectSeq(s, LAMBDA c : c \notin Whitespace \cup LineBreaks)

\* C19: the chunks chunk_text_translate returns, put one after the other and
\* freed of whitespace, are the non-blank lines of the text in their order,
\* freed of whitespace.
C19_TranslationRoundTrip ==
    ck.pc = "done" /\ ck.fn = "chunk_text_translate" =>
        Squash(Concat(ck.parts)) = Squash(Concat(NonBlankLines(ck.text)))

\* chunk_text_translate returned two chunks or more for a text with a blank
\* line and with a line that has whitespace to trim.
C19_Witness ==
    /\ ck.pc = "done" /\ ck.fn = "chunk_text_translate"
    /\ Len(ck.parts) >= 2
    /\ Len(NonBlankLines(ck.text)) < Len(splitlines(ck.text))
    /\ \E l \in DOMAIN splitlines(ck.text) :
          /\ Strip(splitlines(ck.text)[l]) # <<>>
          /\ Strip(splitlines(ck.text)[l]) # splitlines(ck.text)[l]

\* --------------------------------------------------------------------- C20
\* C20: the chunks chunk_text returns, put one after the other and freed of
\* whitespace, are the non-blank lines of the text in their order, freed of
\* whitespace; the lines held in the buffer come out before the slices of a
\* long line that follows them.
C20_SynthesisRoundTrip ==
    ck.pc = "done" /\ ck.fn = "chunk_text" =>
        Squash(Concat(ck.parts)) = Squash(Concat(NonBlankLines(ck.text)))

\* --------------------------------------------------------------------- C21
\* The chunks for which a call of this run returned.
SucceededChunks == {ex.log[p].chunk : p \in {q \in DOMAIN ex.log : ex.log[q].outcome = "ok"}}

\* The chunks whose segments are in seg_files.
SegmentChunks == {ex.out[k] : k \in DOMAIN ex.out}

\* C21: the segments tts_speak has collected are those of the chunks whose
\* synthesis succeeded, each once, in strictly increasing order of the chunk
\* index; a chunk whose synthesis failed or was not made has no segment.
C21_SegmentsAreSuccesses ==
    ex.pc # "idle" /\ ex.stage = "tts" =>
        /\ \A k \in DOMAIN ex.out : k > 1 => ex.out[k - 1] < ex.out[k]
        /\ SegmentChunks = SucceededChunks

\* --------------------------------------------------------------------- C22
\* tts_speak has left its loop: every chunk was processed.
AllChunksProcessed ==
    ex.stage = "tts" /\ ex.pc \in {"returned", "raised"}
    /\ ex.raised \notin {"load", "switch"}

\* C22: when all chunks were processed, tts_speak raises its no-segment error
\* if and only if no chunk was synthesized successfully; with one success or
\* more it goes on to the concatenation, with the segments of the successful
\* chunks only.
C22_FatalIffNoSegment ==
    AllChunksProcessed =>
        /\ ex.raised = "noseg" <=> SucceededChunks = {}
        /\ ex.raised # "noseg" => SegmentChunks = SucceededChunks

\* --------------------------------------------------------------------- C23
\* The records of job j: status.txt, step.txt, outputs/ and logs/error.log.
Records(j) == <<status[j], step[j], files[j], errlog[j]>>

\* Worker w was started.
Started(w) == wk[w].pc # "idle"

\* C23: whenever a worker takes a step, it leaves the records of every job
\* but its own as they are, and no other worker was ever started for its job.
C23_OneWriterPerJob ==
    [][\A w \in Reqs :
         Started(w) /\ wk'[w] # wk[w] =>
            /\ \A j \in JobIds : j # wk[w].job => Records(j)' = Records(j)
            /\ \A v \in Reqs : v # w /\ Started(v) => wk[v].job # wk[w].job]_vars

\* --------------------------------------------------------------------- C24
\* The identities of the jobs created so far.
CreatedJobs == {req[r].job : r \in {q \in Reqs : Accepted(q)}}

\* The place of identity j in the listing.
PlaceOf(j) == CHOOSE k \in DOMAIN list_jobs : list_jobs[k] = j

\* C24: list_jobs returns the identities of the created jobs, each once, and
\* a job created later stands before every job created earlier (requests are
\* numbered in the order their identities were formed).
C24_ListNewestFirst ==
    /\ {list_jobs[k] : k \in DOMAIN list_jobs} = CreatedJobs
    /\ \A k1, k2 \in DOMAIN list_jobs : k1 # k2 => list_jobs[k1] # list_jobs[k2]
    /\ \A r1, r2 \in Reqs :
          Accepted(r1) /\ Accepted(r2) /\ r1 < r2 =>
             PlaceOf(req[r2].job) < PlaceOf(req[r1].job)

\* --------------------------------------------------------------------- C25
\* The directory names of the jobs created so far.
CreatedNames == {JobName(j) : j \in CreatedJobs}

\* C25: get_job answers 404 exactly when no job of the requested identity
\* was created; for a created job it goes on to read the snapshot.
C25_NotFoundIffNotCreated ==
    [][poll.pc \in {"idle", "returned"} /\ poll' # poll =>
          (poll'.resp = "404" <=> poll'.job \notin CreatedNames)]_vars

\* --------------------------------------------------------------------- C26
\* C26: get_job on an existing job reads "unknown" where status.txt is
\* missing and "" where step.txt is missing, and returns its snapshot, with
\* no file where outputs/ holds none and an empty text for each of
\* podcast_en.txt and podcast_vi.txt that is missing.
C26_MissingRecordsReadEmpty ==
    [][poll.job \in CreatedNames /\ poll' # poll =>
          LET j == JobOf(poll.job) IN
          /\ poll.pc = "read_status" /\ status[j] = "absent" => poll'.status = "unknown"
          /\ poll.pc = "read_step" /\ step[j] = "absent" => poll'.step = ""
          /\ poll.pc = "read_files" =>
                /\ poll'.resp = "200"
                /\ files[j] = {} => poll'.files = {}
                /\ "podcast_en.txt" \notin files[j] => poll'.en_text = ""
                /\ "podcast_vi.txt" \notin files[j] => poll'.vi_text = ""]_vars

\* A job was read between the making of its directories and the first write
\* of its records.
C26_Witness ==
    /\ poll.pc = "returned"
    /\ poll.resp = "200"
    /\ poll.job \in CreatedNames
    /\ poll.status = "unknown"
    /\ poll.step = ""
    /\ poll.files = {}
    /\ \E r \in Reqs : JobName(req[r].job) = poll.job /\ req[r].pc = "await"

\* --------------------------------------------------------------------- C27
\* create_job of request r has returned the job's identity.
Returned(r) == req[r].pc = "done"

\* C27: a worker is started only by the return of its own request and every
\* return starts one, with running in the status record of the job; and
\* get_job on a job whose create_job has returned is not answered 404 and
\* reads running, done or error from the status record (the records are those
\* of a job with an identity of its own: C2 is about the others).
C27_RunningBeforeReturn ==
    [][/\ \A r \in Reqs :
            /\ Started(r)' /\ ~Started(r) <=> Returned(r)' /\ ~Returned(r)
            /\ Returned(r)' /\ ~Returned(r) /\ OwnIdentity(r) =>
                  status[req[r].job] = "running"
       /\ \A r \in Reqs :
            Returned(r) /\ OwnIdentity(r) /\ poll' # poll /\ poll'.job = JobName(req[r].job) =>
               /\ poll'.resp # "404"
               /\ poll.pc = "read_status" =>
                     poll'.status \in {"running", "done", "error"}]_vars

\* --------------------------------------------------------------------- C28
\* The calls made by the step from ex to ex'.
NewCalls == SubSeq(ex'.log, Len(ex.log) + 1, Len(ex'.log))

\* The step ended in a call that failed otherwise than by resource
\* exhaustion, or in a CPU retry that failed.
ChunkGivenUp ==
    /\ NewCalls # <<>>
    /\ LET a == NewCalls[Len(NewCalls)] IN
       /\ a.outcome # "ok"
       /\ a.retry \/ ~IsOom(a.outcome)

\* C28: an iteration of tts_speak that ends in a failure other than resource
\* exhaustion, or in a failed CPU retry, leaves the stage in its loop at the
\* next chunk with the segments it had; and when the loop is left, a call
\* was made for every chunk without a segment file.
C28_FailedChunkSkipped ==
    [][ex.pc = "loop" /\ ex.stage = "tts" /\ ex' # ex =>
          /\ ex.i <= ex.n /\ ChunkGivenUp =>
                /\ ex'.pc = "loop"
                /\ ex'.raised = "none"
                /\ ex'.i = ex.i + 1
                /\ ex'.out = ex.out
          /\ ex.i > ex.n => \A i \in (1..ex.n) \ ex.pre : CallsFor(i) # {}]_vars

\* The first chunk failed otherwise than by exhaustion, the CPU retry of the
\* second failed, and the third was synthesized.
C28_Witness ==
    /\ ex.pc = "returned" /\ ex.stage = "tts" /\ ex.pre = {}
    /\ Len(ex.log) = 4
    /\ ex.log[1].chunk = 1 /\ ex.log[1].outcome \in {"runtime", "error"}
    /\ ex.log[2].chunk = 2 /\ ex.log[2].outcome = "oom"
    /\ ex.log[3].chunk = 2 /\ ex.log[3].retry /\ ex.log[3].outcome # "ok"
    /\ ex.log[4].chunk = 3 /\ ex.log[4].outcome = "ok"
    /\ ex.out = <<3>>

\* --------------------------------------------------------------------- C29
\* The calls of this run made on the GPU.
GpuCalls == {p \in DOMAIN ex.log : ex.log[p].device = "cuda"}

\* C29: whichever the stage, a call is made on the GPU only if the job asks
\* for cuda and cuda is available; a job that asks for cpu makes none.
C29_DevicePolicy ==
    ex.pc # "idle" /\ GpuCalls # {} => ex.pref = "cuda" /\ ex.cuda

\* --------------------------------------------------------------------- C30
\* The call at position p of the log failed otherwise than by resource
\* exhaustion, or is a CPU retry that failed.
Unrecovered(p) ==
    /\ ex.log[p].outcome # "ok"
    /\ ex.log[p].retry \/ ~IsOom(ex.log[p].outcome)

\* C30: in transcription and translation a call that fails otherwise than by
\* resource exhaustion, and a CPU retry that fails, is the last call of the
\* stage, which raises, as does a failure while the segments are collected;
\* and a translation that returned holds one part for each chunk, in the
\* order of the chunks.
C30_FailuresPropagate ==
    ex.pc # "idle" /\ ex.stage \in {"asr", "translate"} =>
        /\ \A p \in DOMAIN ex.log :
              Unrecovered(p) =>
                 /\ p = Len(ex.log)
                 /\ ex.pc = "raised"
                 /\ ex.raised = "call"
        /\ ex.collect \notin {"none", "ok"} => ex.pc = "raised" /\ ex.raised = "collect"
        /\ ex.stage = "translate" /\ ex.pc = "returned" =>
              ex.out = [k \in 1..ex.n |-> k]

\* A translation of three chunks returned after it fell back to the CPU at
\* the second.
C30_Witness ==
    /\ ex.stage = "translate" /\ ex.pc = "returned"
    /\ ex.n = 3
    /\ ex.out = <<1, 2, 3>>
    /\ \E p \in DOMAIN ex.log :
          ex.log[p].chunk = 2 /\ ex.log[p].outcome = "oom" /\ RetriedOnCpu(p)

\* --------------------------------------------------------------------- C31
\* C31: in tts_speak the progress written is 1 of n, 2 of n, ... in this
\* order, n being the number of chunks, and every call for chunk i is made
\* after the progress "i of n" was written.
C31_ProgressBeforeCall ==
    ex.pc # "idle" /\ ex.stage = "tts" =>
        /\ \A k \in DOMAIN ex.steps : ex.steps[k].i = k /\ ex.steps[k].total = ex.n
        /\ Len(ex.steps) <= ex.n
        /\ \A p \in DOMAIN ex.log :
              /\ ex.log[p].chunk \in DOMAIN ex.steps
              /\ ex.steps[ex.log[p].chunk].calls < p

\* The progress of three chunks was written and a call made for each.
C31_Witness ==
    /\ ex.stage = "tts" /\ ex.pc = "returned" /\ ex.n = 3
    /\ Len(ex.steps) = 3
    /\ \A i \in 1..3 : CallsFor(i) # {}

\* --------------------------------------------------------------------- C32
Blank == Whitespace \cup LineBreaks

\* C32: every chunk chunk_text and chunk_text_translate emit has a first and
\* a last character and neither is whitespace, and a text made of nothing
\* but whitespace and line breaks yields no chunk.
C32_ChunksTrimmed ==
    ck.pc # "idle" =>
        /\ \A k \in DOMAIN ck.parts :
              /\ ck.parts[k] # <<>>
              /\ ck.parts[k][1] \notin Blank
              /\ ck.parts[k][Len(ck.parts[k])] \notin Blank
        /\ (\A c \in DOMAIN ck.text : ck.text[c] \in Blank) => ck.parts = <<>>

\* chunk_text returned after it cut a slice that ended in whitespace from a
\* line that began with whitespace.
C32_Witness ==
    /\ ck.pc = "done" /\ ck.fn = "chunk_text" /\ ck.parts # <<>>
    /\ \E l \in DOMAIN splitlines(ck.text) :
          LET raw == splitlines(ck.text)[l]
              line == Strip(raw) IN
          /\ raw # <<>> /\ raw[1] \in Blank
          /\ Len(line) > ck.max_chars
          /\ line[ck.max_chars] \in Blank

\* --------------------------------------------------------------------- C33
\* The chunks are the joins of consecutive groups of the lines ls, each line
\* after the first of its group was joined because the buffer, the line and
\* one space were within m, and each group ends where the next line was not.
RECURSIVE GreedyGroups(_, _, _)
GreedyGroups(chunks, ls, m) ==
    IF chunks = <<>> THEN ls = <<>>
    ELSE \E k \in 1..Len(ls) :
            /\ Head(chunks) = JoinLines(SubSeq(ls, 1, k))
            /\ \A j \in 2..k :
                  Len(JoinLines(SubSeq(ls, 1, j - 1))) + Len(ls[j]) + 1 <= m
            /\ k < Len(ls) => Len(Head(chunks)) + Len(ls[k + 1]) + 1 > m
            /\ GreedyGroups(Tail(chunks), SubSeq(ls, k + 1, Len(ls)), m)

\* C33: chunk_text_translate packs greedily: a line joins the buffer, after
\* one space, exactly when len(buf) + len(line) + 1 <= max_chars, else the
\* buffer is emitted and the line begins the next; so the length of a chunk,
\* plus one, plus the length of the first line of the chunk after it exceeds
\* max_chars.
C33_TranslationGreedy ==
    ck.pc = "done" /\ ck.fn = "chunk_text_translate" =>
        GreedyGroups(ck.parts, NonBlankLines(ck.text), ck.max_chars)

\* chunk_text_translate joined two lines into a chunk that fills max_chars
\* and began the next chunk with the third.
C33_Witness ==
    /\ ck.pc = "done" /\ ck.fn = "chunk_text_translate"
    /\ Len(NonBlankLines(ck.text)) = 3
    /\ Len(ck.parts) = 2
    /\ Len(ck.parts[1]) = ck.max_chars
    /\ ck.parts[1] = JoinLines(SubSeq(NonBlankLines(ck.text), 1, 2))

\* --------------------------------------------------------------------- C34
\* The local paths a remote fetch returns.
FetchedPaths == {"youtube_audio", "spotify_audio"}

\* The step of worker w from main.py:90 to main.py:97 made a remote fetch: it
\* returned a path or raised.
Fetched(w) ==
    /\ wk[w].pc = "fetch" /\ wk'[w].pc # "fetch"
    /\ wk'[w].in_path \in FetchedPaths \/ wk'[w].pc # "step1"

\* C34: a worker makes a remote fetch only for a job that has a url and no
\* uploaded audio, before any stage began; the pipeline is then given the
\* path the fetch returned, and a fetch that raises takes the worker to the
\* exception handler with no stage begun.
C34_FetchOnlyWithoutUpload ==
    [][\A w \in Reqs :
         Fetched(w) =>
            /\ wk[w].in_path = "none"
            /\ wk[w].yt # "none" \/ wk[w].sp # "none"
            /\ wk[w].began = <<>> /\ wk'[w].began = <<>>
            /\ wk'[w].pc \in {"step1", "error_open"}
            /\ wk'[w].pc = "step1" => wk'[w].in_path \in FetchedPaths]_vars

\* --------------------------------------------------------------------- C35
\* C35: every segment tts_speak hands to the concatenation is that of a
\* chunk for which a call of this run returned; a segment file that was there
\* before the chunk was processed is not taken without such a call.
C35_SegmentsFromOwnCalls ==
    ex.pc # "idle" /\ ex.stage = "tts" =>
        \A k \in DOMAIN ex.out : \E p \in CallsFor(ex.out[k]) : ex.log[p].outcome = "ok"

\* --------------------------------------------------------------------- C36
\* C36: an empty transcript has no chunk (C32); translate_en2vi without a
\* chunk makes no call and returns no part, and tts_speak without a chunk
\* makes no call,
\* has no segment and does not return: once its model is loaded it raises
\* the no-segment error.
C36_EmptyTranscriptFails ==
    ex.pc # "idle" /\ ex.n = 0 =>
        /\ ex.log = <<>> /\ ex.out = <<>> /\ ex.steps = <<>>
        /\ ex.stage = "translate" => ex.raised \in {"none", "load"}
        /\ ex.stage = "tts" =>
              /\ ex.pc # "returned"
              /\ ex.pc = "raised" => ex.raised \in {"load", "noseg"}
              /\ ex.pc = "raised" /\ ex.device # "none" => ex.raised = "noseg"

\* tts_speak was given no chunk and raised the no-segment error.
C36_Witness ==
    /\ ex.stage = "tts" /\ ex.n = 0
    /\ ex.pc = "raised" /\ ex.raised = "noseg"
    /\ ex.device \in Devices

\* --------------------------------------------------------------------- C37
\* The job of request r, which has an identity of its own, is the one the
\* polling client asked for.
Polled(r) == Accepted(r) /\ OwnIdentity(r) /\ poll.job = JobName(req[r].job)

C38_StepAfterEnd ==
    \A w \in Reqs :
        wk[w].pc = "end" /\ OwnIdentity(w) =>
            LET j == wk[w].job IN
            /\ step[j] = "finished" <=> status[j] = "done"
            /\ status[j] \in Terminal
            /\ Failed(w) => status[j] = "error" /\ step[j] = StepMsg(Len(wk[w].began))
            /\ status[j] = "error" /\ ~Failed(w) =>
                  step[j] \in {"init_youtube", "init_spotify"}

\* The worker of a job ended after its fourth stage raised.
C38_Witness ==
    \E w \in Reqs :
        /\ wk[w].pc = "end" /\ OwnIdentity(w)
        /\ wk[w].began = <<1, 2, 3, 4>> /\ wk[w].completed = 3
        /\ status[wk[w].job] = "error"
        /\ step[wk[w].job] = "stage4"

\* --------------------------------------------------------------------- C39
\* C39: every iteration of the while loop of chunk_text leaves a line
\* shorter than the one it began with, and every call of chunk_text with
\* max_chars >= 1 returns.
C39_ChunkTextTerminates ==
    /\ [][ck.pc = "while" /\ ck'.pc = "while" /\ ck' # ck =>
             Len(ck'.line) < Len(ck.line)]_vars
    /\ (ck.pc # "idle" /\ ck.fn = "chunk_text") ~> (ck.pc = "done")

\* chunk_text returned after its while loop cut one line into three slices.
C39_Witness ==
    /\ ck.pc = "done" /\ ck.fn = "chunk_text"
    /\ Len(splitlines(ck.text)) = 1
    /\ Len(ck.parts) >= 3

====
